---- MODULE Spec2Model ----
(***************************************************************************)
(* Model of fplstats' "gameweek 1 picks" simulation and what it rests on:  *)
(*   LeagueAnalyzer.get_gw1_picks_standings                                *)
(*   LeagueAnalyzer.get_combined_gameweek_result_for_player                *)
(*   LeagueAnalyzer.get_player_gameweek_results                            *)
(*   LeagueAnalyzer.get_gameweek_players                                   *)
(*   LeagueAnalyzer.get_captain_foresight                                  *)
(* (src/fplstats/analyzers.py).  Player ids are integers here (strings in  *)
(* the code); list indices are 1-based here (0-based in the code).         *)
(*                                                                         *)
(* Spec, FairSpec, RepeatSpec, SeasonSpec, ManagerSpec and LateJoinerSpec  *)
(* run get_gw1_picks_standings step by step (Next) over different leagues; *)
(* AggregatorSpec and ForesightSpec call one method on the loaded          *)
(* analyzer.                                                               *)
(***************************************************************************)
EXTENDS Integers, Sequences, FiniteSets, TLC

\* ------------------------------------------------------------ constants
\* fplstats.enums.Position
GOALKEEPER == 1
DEFENDER == 2
MIDFIELDER == 3
ATTACKER == 4
MANAGER == 5

\* fplstats.constants (imported by analyzers.py, line 6)
MIN_DEFS == 3
MIN_MIDS == 2
MIN_FWDS == 1

\* gw1_all_picks[:11] / len(gw1_bench_picks) == 4 / len(outfield_players) == 10
NumStarters == 11
BenchSize == 4
MaxOutfield == 10

\* "None" for gk, and the value of a local that was not assigned yet
NoPlayer == 0

\* no method but get_gw1_picks_standings was called; nothing returned
NoCall == [method |-> ""]
NoReturn == [error |-> ""]

\* ------------------------------------------------------------ bounds
\* most outfield starters without minutes in a gameweek of the broad family
MaxAbsent == 3
\* most fixture records of the player the aggregator is called for
MaxFixtures == 3
\* gameweeks of the season family
SeasonLength == 3
\* picks the malformed squads are short or long of SquadSize
MaxMiscount == 1

SquadSize == NumStarters + BenchSize

\* ------------------------------------------------------------ state
VARIABLES
    players,      \* self.players: id -> [id, element_type, history]
    users,        \* self.users.values(): sequence of [id, picks] (history[0].picks)
    gameweeks,    \* self.gameweeks: sequence of [id, finished]
    pc,           \* position in get_gw1_picks_standings
    error,        \* the exception that ended the call, "" when none
    u,            \* index of the user of the outer loop
    g,            \* index into gw_numbers of the gameweek loop
    results,      \* results: the rows appended so far
    totals,       \* [total_points, total_captain_points,
                  \*  total_vice_captain_points, total_auto_sub_points]
    gw,           \* the locals of one gameweek: [total_gw_points, captain_mins,
                  \*  captain_points, vc_mins, vc_points, gk, defs, mids, fwds]
    gw_bench_picks,
    i,            \* index of the for loop over gw_bench_picks
    flags,        \* [should_be_force_subbed_in, should_be_subbed_in, should_be_removed]
    at_gw_start,  \* history: totals when the current gameweek began
    subs_in,      \* history: the bench picks promoted in the current gameweek, in order
    outcomes,     \* history: what each evaluated gameweek of each user ended with
    called,       \* the method called on the analyzer and its arguments
    returned      \* what the called method returned or raised

store == <<players, users, gameweeks>>
calls == <<called, returned>>
locals == <<pc, error, u, g, results, totals, gw, gw_bench_picks, i, flags,
            at_gw_start, subs_in, outcomes>>
vars == <<players, users, gameweeks, pc, error, u, g, results, totals, gw,
          gw_bench_picks, i, flags, at_gw_start, subs_in, outcomes, called, returned>>

\* ------------------------------------------------------------ helpers
\* del s[k]
RemoveAt_Front(s, k) == Tail(s)

RemoveAt(s, k) == [j \in 1..(Len(s) - 1) |-> IF j < k THEN s[j] ELSE s[j + 1]]

Range(s) == {s[j] : j \in 1..Len(s)}

\* ------------------------------------------------------------ aggregator
\* self.players[str(player_id)]: a KeyError for an id the store does not hold
LookupError(player_id) == IF player_id \in DOMAIN players THEN "" ELSE "KeyError"

\* get_player_gameweek_results: the records of the player whose round is the gameweek
get_player_gameweek_results_AnyRound(player_id, gameweek_number) ==
    players[player_id].history

get_player_gameweek_results(player_id, gameweek_number) ==
    SelectSeq(players[player_id].history, LAMBDA x : x.round = gameweek_number)

\* PlayerGameweekCombinedResult(): every field 0
ZeroResult == [total_points |-> 0, minutes |-> 0, bonus |-> 0]

RECURSIVE CombineResults(_, _)
CombineResults(combined_result, player_gw_results) ==
    IF player_gw_results = <<>> THEN combined_result
    ELSE LET r == Head(player_gw_results) IN
         CombineResults([total_points |-> combined_result.total_points + r.total_points,
                         minutes |-> combined_result.minutes + r.minutes,
                         bonus |-> combined_result.bonus + r.bonus],
                        Tail(player_gw_results))

get_combined_gameweek_result_for_player(player_id, gameweek_number) ==
    CombineResults(ZeroResult, get_player_gameweek_results(player_id, gameweek_number))

\* ------------------------------------------------------------ captain foresight
\* user.history: the model keeps its first entry, the picks of gameweek 1
user_history(user) == <<[event |-> 1, picks |-> user.picks]>>

\* get_gameweek_players, lines 283-293: the combined result of a pick, its
\* total_points taken times the pick's multiplier
RECURSIVE CombineMultiplied(_, _, _)
CombineMultiplied(combined_result, player_gw_results, multiplier) ==
    IF player_gw_results = <<>> THEN combined_result
    ELSE LET r == Head(player_gw_results) IN
         CombineMultiplied(
             [total_points |-> combined_result.total_points + multiplier * r.total_points,
              minutes |-> combined_result.minutes + r.minutes,
              bonus |-> combined_result.bonus + r.bonus],
             Tail(player_gw_results), multiplier)

\* the loop over the picks of the gameweek: "Player played for user if multiplier >= 1"
RECURSIVE GameweekPlayers(_, _)
GameweekPlayers(picks, gameweek_number) ==
    IF picks = <<>> THEN <<>>
    ELSE LET pick == Head(picks)
             player_gw_results == get_player_gameweek_results(pick.element, gameweek_number)
         IN (IF pick.multiplier >= 1
             THEN <<[player |-> players[pick.element],
                     combined_result |-> CombineMultiplied(ZeroResult, player_gw_results,
                                                           pick.multiplier),
                     results |-> player_gw_results]>>
             ELSE <<>>)
            \o GameweekPlayers(Tail(picks), gameweek_number)

get_gameweek_players(user, gameweek_number) ==
    GameweekPlayers(user_history(user)[gameweek_number].picks, gameweek_number)

\* next((x for x in gw_players if x.player.id == player_id))
RECURSIVE PlayerOf(_, _)
PlayerOf(gw_players, player_id) ==
    IF Head(gw_players).player.id = player_id THEN Head(gw_players)
    ELSE PlayerOf(Tail(gw_players), player_id)

\* next((p for p in user_gw.picks if p.is_captain)), likewise is_vice_captain
RECURSIVE FlaggedPick(_, _)
FlaggedPick(picks, isVice) ==
    IF (IF isVice THEN Head(picks).is_vice_captain ELSE Head(picks).is_captain)
    THEN Head(picks)
    ELSE FlaggedPick(Tail(picks), isVice)

ZeroForesight == [total_captain_points |-> 0, total_vc_points |-> 0,
                  total_gameweeks_with_vc |-> 0, total_gameweeks_without_captain |-> 0]

\* lines 1155-1185: one pass of the loop over user.history
ForesightStep(user, user_gw, t) ==
    IF user_gw.picks = <<>> THEN t
    ELSE LET gw_players == get_gameweek_players(user, user_gw.event)
             captain_pick == FlaggedPick(user_gw.picks, FALSE)
             vc_pick == FlaggedPick(user_gw.picks, TRUE)
         IN IF captain_pick.multiplier # 0
            THEN LET captain_gw == PlayerOf(gw_players, captain_pick.element)
                 IN [t EXCEPT !.total_captain_points =
                                  @ + (captain_pick.multiplier - 1)
                                          * captain_gw.combined_result.total_points]
            ELSE IF vc_pick.multiplier # 0
            THEN LET vc_gw == PlayerOf(gw_players, vc_pick.element)
                     vc_gw_points ==
                         (vc_pick.multiplier - 1) * vc_gw.combined_result.total_points
                 IN [t EXCEPT !.total_captain_points = @ + vc_gw_points,
                              !.total_vc_points = @ + vc_gw_points,
                              !.total_gameweeks_with_vc = @ + 1]
            ELSE [t EXCEPT !.total_gameweeks_without_captain = @ + 1]

RECURSIVE ForesightLoop(_, _, _)
ForesightLoop(user, history, t) ==
    IF history = <<>> THEN t
    ELSE ForesightLoop(user, Tail(history), ForesightStep(user, Head(history), t))

\* CaptainResultRow of one user
ForesightRow(user) ==
    LET t == ForesightLoop(user, user_history(user), ZeroForesight)
    IN [id |-> user.id, total_captain_points |-> t.total_captain_points,
        total_vc_points |-> t.total_vc_points,
        total_gameweeks_with_vc |-> t.total_gameweeks_with_vc,
        total_gameweeks_without_captain |-> t.total_gameweeks_without_captain]

\* sorted(results, key=total_captain_points, reverse=True): stable, so of two
\* rows with one key the earlier stays ahead
RECURSIVE InsertRow(_, _)
InsertRow(sorted, row) ==
    IF sorted = <<>> THEN <<row>>
    ELSE IF Head(sorted).total_captain_points >= row.total_captain_points
    THEN <<Head(sorted)>> \o InsertRow(Tail(sorted), row)
    ELSE <<row>> \o sorted

RECURSIVE SortedRows(_, _)
SortedRows(sorted, rows) ==
    IF rows = <<>> THEN sorted
    ELSE SortedRows(InsertRow(sorted, Head(rows)), Tail(rows))

get_captain_foresight ==
    SortedRows(<<>>, [k \in 1..Len(users) |-> ForesightRow(users[k])])

\* ------------------------------------------------------------ the call
\* gw_numbers = [x.id for x in self.gameweeks if x.finished]
FinishedIds_AnyGameweek(gws) == [k \in 1..Len(gws) |-> gws[k].id]

RECURSIVE FinishedIds(_)
FinishedIds(gws) ==
    IF gws = <<>> THEN <<>>
    ELSE IF Head(gws).finished THEN <<Head(gws).id>> \o FinishedIds(Tail(gws))
    ELSE FinishedIds(Tail(gws))

gw_numbers == FinishedIds(gameweeks)

gw1_all_picks == users[u].picks
gw1_starting_picks == SubSeq(gw1_all_picks, 1, NumStarters)
gw1_bench_picks == SubSeq(gw1_all_picks, NumStarters + 1, Len(gw1_all_picks))

\* next((x for x in picks if pred)): the first match, NoPlayer index when none
RECURSIVE FirstIndex(_, _, _)
FirstIndex(picks, k, isVice) ==
    IF k > Len(picks) THEN 0
    ELSE IF (IF isVice THEN picks[k].is_vice_captain ELSE picks[k].is_captain) THEN k
    ELSE FirstIndex(picks, k + 1, isVice)

captain_index == FirstIndex(gw1_starting_picks, 1, FALSE)
vc_index == FirstIndex(gw1_all_picks, 1, TRUE)

ZeroTotals == [total_points |-> 0, total_captain_points |-> 0,
               total_vice_captain_points |-> 0, total_auto_sub_points |-> 0]

EmptyGw == [total_gw_points |-> 0, captain_mins |-> 0, captain_points |-> 0,
            vc_mins |-> 0, vc_points |-> 0, gk |-> NoPlayer,
            defs |-> <<>>, mids |-> <<>>, fwds |-> <<>>]

NoFlags == [should_be_force_subbed_in |-> FALSE, should_be_subbed_in |-> FALSE,
            should_be_removed |-> FALSE]

ResultRow(user_id, t) ==
    [user_id |-> user_id, total_points |-> t.total_points,
     total_captain_points |-> t.total_captain_points,
     total_vice_captain_points |-> t.total_vice_captain_points,
     total_auto_sub_points |-> t.total_auto_sub_points]

\* lines 771-775: the four totals are set to 0 for each user
ResetTotals_KeepsPrevious(previous) == previous

ResetTotals(previous) == ZeroTotals

\* the exception raised while the user's picks are unpacked, "" when none
SetupError_NoAsserts ==
    IF captain_index = 0 THEN "StopIteration"
    ELSE IF vc_index = 0 THEN "StopIteration"
    ELSE ""

SetupError ==
    IF Len(gw1_starting_picks) # NumStarters THEN "AssertionError"
    ELSE IF Len(gw1_bench_picks) # BenchSize THEN "AssertionError"
    ELSE IF captain_index = 0 THEN "StopIteration"
    ELSE IF vc_index = 0 THEN "StopIteration"
    ELSE ""

\* "if starting_player_gw.minutes:", "if not bench_player_gw.minutes:"
Played_Always(player_gw) == TRUE

Played(player_gw) == player_gw.minutes # 0

\* one pass of the loop over the starting picks, from pick k on
StarterStep(st, starting_pick, gameweek_number) ==
    LET starting_player == players[starting_pick.element]
        starting_player_pos == starting_player.element_type
        starting_player_gw ==
            get_combined_gameweek_result_for_player(starting_player.id, gameweek_number)
        st1 == IF starting_pick.is_captain
               THEN [st EXCEPT !.captain_mins = starting_player_gw.minutes,
                               !.captain_points = starting_player_gw.total_points]
               ELSE IF starting_pick.is_vice_captain
               THEN [st EXCEPT !.vc_mins = starting_player_gw.minutes,
                               !.vc_points = starting_player_gw.total_points]
               ELSE st
        st2 == IF starting_player_pos = GOALKEEPER
               THEN [st1 EXCEPT !.gk = starting_player.id]
               ELSE IF starting_player_pos = DEFENDER
               THEN [st1 EXCEPT !.defs = Append(@, starting_player.id)]
               ELSE IF starting_player_pos = MIDFIELDER
               THEN [st1 EXCEPT !.mids = Append(@, starting_player.id)]
               ELSE [st1 EXCEPT !.fwds = Append(@, starting_player.id)]
    IN IF Played(starting_player_gw)
       THEN [st2 EXCEPT !.total_gw_points = @ + starting_player_gw.total_points]
       ELSE st1

RECURSIVE StartersLoop(_, _, _, _)
StartersLoop(st, picks, k, gameweek_number) ==
    IF k > Len(picks) THEN st
    ELSE StartersLoop(StarterStep(st, picks[k], gameweek_number), picks, k + 1,
                      gameweek_number)

\* "Add captain/VC points": what each branch adds
AddedCaptainPoints_NoMinutesCheck(st) == st.captain_points

AddedCaptainPoints(st) == IF st.captain_mins # 0 THEN st.captain_points ELSE 0

AddedViceCaptainPoints_IfNotElif(st) ==
    IF st.vc_mins # 0 THEN st.vc_points ELSE 0

AddedViceCaptainPoints(st) ==
    IF st.captain_mins # 0 THEN 0
    ELSE IF st.vc_mins # 0 THEN st.vc_points
    ELSE 0

\* "Auto-sub keeper if applicable"
KeeperSubApplies_IgnoresStarter(gk, gk_bench_minutes) == gk_bench_minutes # 0

KeeperSubApplies(gk, gk_bench_minutes) == gk = NoPlayer /\ gk_bench_minutes # 0

\* len(outfield_players) == 10
OutfieldFull_CountsKeeper(pool) == pool = MaxOutfield + 1

OutfieldFull(pool) == pool = MaxOutfield

\* len(outfield_players) + len(gw_bench_picks) <= 10
ShouldBeForceSubbedIn_Never(pool, bench_len) == FALSE

ShouldBeForceSubbedIn_Strict(pool, bench_len) == pool + bench_len < MaxOutfield

ShouldBeForceSubbedIn(pool, bench_len) == pool + bench_len <= MaxOutfield

\* "Check if we can sub in": the if / elif chain over the bench player's position
CanSubIn_OwnMinimumOnly(pos, nd, nm, nf, forced) ==
    IF pos = DEFENDER THEN nd < MIN_DEFS
    ELSE IF pos = MIDFIELDER THEN nm < MIN_MIDS
    ELSE FALSE

CanSubIn(pos, nd, nm, nf, forced) ==
    IF pos = DEFENDER
    THEN nd < MIN_DEFS \/ (nm >= MIN_MIDS /\ nf >= MIN_FWDS) \/ forced
    ELSE IF pos = MIDFIELDER
    THEN nm < MIN_MIDS \/ (nd >= MIN_DEFS /\ nf >= MIN_FWDS) \/ forced
    ELSE FALSE

\* should_be_removed: the bench player did not play, or is the last of the
\* queue and cannot be subbed in
ShouldBeRemoved_IgnoresLastPick(minutes, is_last_pick, subbed) == minutes = 0

ShouldBeRemoved(minutes, is_last_pick, subbed) ==
    minutes = 0 \/ (is_last_pick /\ ~subbed)

\* outfield_players = defs + mids + fwds
PoolSize_CountsKeeper(st) ==
    Len(st.defs) + Len(st.mids) + Len(st.fwds) + (IF st.gk # NoPlayer THEN 1 ELSE 0)

PoolSize(st) == Len(st.defs) + Len(st.mids) + Len(st.fwds)

\* ------------------------------------------------------------ inputs
\* The stores the call can be given.  A player's id is the squad slot that
\* holds it; Fixture is a PlayerHistory, Pick a Pick, of fplstats.models.
Fixture(round, minutes, total_points, bonus) ==
    [round |-> round, minutes |-> minutes, total_points |-> total_points,
     bonus |-> bonus]

\* the fixture records of one player in one round: a blank, one fixture or two
\* when it played; none, a fixture without minutes, or one without minutes and
\* with a card's negative points when it did not
RoundHistory(id, round, played) ==
    IF played
    THEN IF id % 3 = 0
         THEN <<Fixture(round, 90, 2 * id - 5 + round, 1), Fixture(round, 30, 1, 0)>>
         ELSE <<Fixture(round, 90, 2 * id - 5 + round, 1)>>
    ELSE IF id % 3 = 1 THEN <<>>
    ELSE IF id % 3 = 2 THEN <<Fixture(round, 0, 0, 0)>>
    ELSE <<Fixture(round, 0, -3, 0)>>

\* absent[r] is the set of players without minutes in round r
RECURSIVE SeasonHistory(_, _, _)
SeasonHistory(id, absent, r) ==
    IF r > Len(absent) THEN <<>>
    ELSE RoundHistory(id, r, id \notin absent[r]) \o SeasonHistory(id, absent, r + 1)

Pick(element, position, multiplier, is_captain, is_vice_captain) ==
    [element |-> element, position |-> position, multiplier |-> multiplier,
     is_captain |-> is_captain, is_vice_captain |-> is_vice_captain]

\* the picks of a squad in slot order: captain cap with multiplier mult,
\* vice-captain vc, the bench with multiplier 0
SquadPicks(cap, vc, mult) ==
    [s \in 1..SquadSize |->
        Pick(s, s, IF s = cap THEN mult ELSE IF s > NumStarters THEN 0 ELSE 1,
             s = cap, s = vc)]

\* formations <<defenders, midfielders, forwards>> of the starting eleven
Formations == {<<3, 5, 2>>, <<4, 4, 2>>, <<5, 4, 1>>, <<5, 2, 3>>}

StarterPos(form, s) ==
    IF s = 1 THEN GOALKEEPER
    ELSE IF s <= 1 + form[1] THEN DEFENDER
    ELSE IF s <= 1 + form[1] + form[2] THEN MIDFIELDER
    ELSE ATTACKER

\* slot 12 holds the backup goalkeeper, benchPos the positions of slots 13..15
SquadPos(form, benchPos, s) ==
    IF s <= NumStarters THEN StarterPos(form, s)
    ELSE IF s = NumStarters + 1 THEN GOALKEEPER
    ELSE benchPos[s]

OutfieldBench == (NumStarters + 2)..SquadSize

MakeStore(form, benchPos, absent, finished, userSeq) ==
    [players |-> [id \in 1..SquadSize |->
                     [id |-> id, element_type |-> SquadPos(form, benchPos, id),
                      history |-> SeasonHistory(id, absent, 1)]],
     users |-> userSeq,
     gameweeks |-> [r \in 1..Len(finished) |-> [id |-> r, finished |-> finished[r]]]]

\* how many defenders, midfielders, forwards of the starting eleven have no minutes
AbsentPatterns(form) ==
    {pat \in (0..MaxAbsent) \X (0..MaxAbsent) \X (0..MaxAbsent) :
        /\ pat[1] + pat[2] + pat[3] <= MaxAbsent
        /\ \A k \in 1..3 : pat[k] <= form[k]}

\* the last pat[k] starters of each position have no minutes
AbsentStarters(form, pat) ==
    {s \in 2..NumStarters :
        \/ (s <= 1 + form[1] /\ s > 1 + form[1] - pat[1])
        \/ (s > 1 + form[1] /\ s <= 1 + form[1] + form[2]
              /\ s > 1 + form[1] + form[2] - pat[2])
        \/ (s > 1 + form[1] + form[2] /\ s > NumStarters - pat[3])}

\* positions of bench slots 13..15; a bench player without minutes is a defender
BenchChoices ==
    [OutfieldBench -> {0, DEFENDER, MIDFIELDER, ATTACKER}]

BenchPos(choice) == [s \in OutfieldBench |-> IF choice[s] = 0 THEN DEFENDER ELSE choice[s]]

BenchAbsent(choice) == {s \in OutfieldBench : choice[s] = 0}

CaptaincyBench ==
    [s \in OutfieldBench |->
        IF s = NumStarters + 2 THEN DEFENDER
        ELSE IF s = NumStarters + 3 THEN MIDFIELDER ELSE ATTACKER]

\* two more goalkeepers in the store, for a squad that differs from another in
\* its two goalkeepers only
SpareKeepers == <<SquadSize + 1, SquadSize + 2>>

WithSpareKeepers(inp, absent) ==
    [inp EXCEPT !.players =
        [id \in 1..(SquadSize + Len(SpareKeepers)) |->
            IF id <= SquadSize THEN inp.players[id]
            ELSE [id |-> id, element_type |-> GOALKEEPER,
                  history |-> SeasonHistory(id, absent, 1)]]]

OtherKeepers(picks) ==
    [s \in 1..Len(picks) |->
        IF s = 1 THEN [picks[s] EXCEPT !.element = SpareKeepers[1]]
        ELSE IF s = NumStarters + 1 THEN [picks[s] EXCEPT !.element = SpareKeepers[2]]
        ELSE picks[s]]

\* benches of three outfield players who all played, the first and the last of
\* different positions
MixedBenches ==
    {choice \in [OutfieldBench -> {DEFENDER, MIDFIELDER, ATTACKER}] :
        choice[NumStarters + 2] # choice[SquadSize]}

\* benches of three alike
AlikeBenches ==
    {choice \in BenchChoices : \A s \in OutfieldBench : choice[s] = choice[NumStarters + 2]}

\* squads the call rejects: a pick short or too many, no captain among the
\* starters, no vice-captain
MalformedPicks ==
    {SubSeq(SquadPicks(4, 3, 2), 1, n) :
        n \in (SquadSize - MaxMiscount)..(SquadSize - 1)}
    \cup {SquadPicks(4, 3, 2) \o SubSeq(SquadPicks(0, 0, 1), 1, n) : n \in 1..MaxMiscount}
    \cup {SquadPicks(0, 3, 2), SquadPicks(NumStarters + 1, 3, 2), SquadPicks(4, 0, 2)}

\* squads of 15 with a designation given twice: two captains, two
\* vice-captains, captain and vice-captain on one pick
DuplicatePicks ==
    {[SquadPicks(4, 3, 2) EXCEPT ![s].is_captain = TRUE] : s \in {2, 6}}
    \cup {[SquadPicks(4, 3, 2) EXCEPT ![s].is_vice_captain = TRUE] :
             s \in {2, SquadSize}}
    \cup {SquadPicks(4, 4, 2)}

\* ------------------------------------------------------------ actions
\* "Skip if user started after gameweek 1"
SkipUser_ReportsTotals ==
    /\ pc = "user" /\ u <= Len(users)
    /\ users[u].picks = <<>>
    /\ results' = Append(results, ResultRow(users[u].id, totals))
    /\ u' = u + 1
    /\ UNCHANGED <<store, calls, outcomes, pc, error, g, totals, gw, gw_bench_picks, i, flags,
                   at_gw_start, subs_in>>

SkipUser ==
    /\ pc = "user" /\ u <= Len(users)
    /\ users[u].picks = <<>>
    /\ results' = Append(results, ResultRow(users[u].id, ZeroTotals))
    /\ u' = u + 1
    /\ UNCHANGED <<store, calls, outcomes, pc, error, g, totals, gw, gw_bench_picks, i, flags,
                   at_gw_start, subs_in>>

\* the asserts and the two next(...) calls fail: the exception leaves the call
RejectUser ==
    /\ pc = "user" /\ u <= Len(users)
    /\ users[u].picks # <<>>
    /\ SetupError # ""
    /\ pc' = "error"
    /\ error' = SetupError
    /\ UNCHANGED <<store, calls, outcomes, u, g, results, totals, gw, gw_bench_picks, i, flags,
                   at_gw_start, subs_in>>

\* lines 762-780: unpack the picks, zero the totals
SetupUser ==
    /\ pc = "user" /\ u <= Len(users)
    /\ users[u].picks # <<>>
    /\ SetupError = ""
    /\ totals' = ResetTotals(totals)
    /\ g' = 1
    /\ pc' = "gameweek"
    /\ UNCHANGED <<store, calls, outcomes, error, u, results, gw, gw_bench_picks, i, flags,
                   at_gw_start, subs_in>>

\* lines 785-824: reset the gameweek's locals, loop over the starting picks
StartGameweek_KeepsLocals ==
    /\ pc = "gameweek" /\ g <= Len(gw_numbers)
    /\ gw' = StartersLoop(gw, gw1_starting_picks, 1, gw_numbers[g])
    /\ at_gw_start' = totals
    /\ subs_in' = <<>>
    /\ pc' = "captain"
    /\ UNCHANGED <<store, calls, outcomes, error, u, g, results, totals, gw_bench_picks, i, flags>>

StartGameweek ==
    /\ pc = "gameweek" /\ g <= Len(gw_numbers)
    /\ gw' = StartersLoop(EmptyGw, gw1_starting_picks, 1, gw_numbers[g])
    /\ at_gw_start' = totals
    /\ subs_in' = <<>>
    /\ pc' = "captain"
    /\ UNCHANGED <<store, calls, outcomes, error, u, g, results, totals, gw_bench_picks, i, flags>>

\* lines 826-832
AddCaptainPoints ==
    /\ pc = "captain"
    /\ gw' = [gw EXCEPT !.total_gw_points =
                            @ + AddedCaptainPoints(gw) + AddedViceCaptainPoints(gw)]
    /\ totals' = [totals EXCEPT
                    !.total_captain_points = @ + AddedCaptainPoints(gw),
                    !.total_vice_captain_points = @ + AddedViceCaptainPoints(gw)]
    /\ pc' = "keeper"
    /\ UNCHANGED <<store, calls, outcomes, error, u, g, results, gw_bench_picks, i, flags,
                   at_gw_start, subs_in>>

\* lines 834-848
AutoSubKeeper_KeepsSlot ==
    /\ pc = "keeper"
    /\ LET gk_bench_pick == gw1_bench_picks[1]
           gk_player_id == gk_bench_pick.element
           gk_bench_player_gw ==
               get_combined_gameweek_result_for_player(gk_player_id, gw_numbers[g])
           sub == KeeperSubApplies(gw.gk, gk_bench_player_gw.minutes)
       IN /\ gw' = IF sub THEN [gw EXCEPT !.gk = players[gk_player_id].id] ELSE gw
          /\ totals' = IF sub
                       THEN [totals EXCEPT !.total_auto_sub_points =
                                               @ + gk_bench_player_gw.total_points]
                       ELSE totals
          /\ subs_in' = IF sub THEN Append(subs_in, gk_player_id) ELSE subs_in
    /\ gw_bench_picks' = gw1_bench_picks
    /\ i' = 1
    /\ pc' = "outfield"
    /\ UNCHANGED <<store, calls, outcomes, error, u, g, results, flags, at_gw_start>>

AutoSubKeeper_NoCounter ==
    /\ pc = "keeper"
    /\ LET gk_bench_pick == gw1_bench_picks[1]
           gk_player_id == gk_bench_pick.element
           gk_bench_player_gw ==
               get_combined_gameweek_result_for_player(gk_player_id, gw_numbers[g])
           sub == KeeperSubApplies(gw.gk, gk_bench_player_gw.minutes)
       IN /\ gw' = IF sub THEN [gw EXCEPT !.gk = players[gk_player_id].id] ELSE gw
          /\ subs_in' = IF sub THEN Append(subs_in, gk_player_id) ELSE subs_in
    /\ gw_bench_picks' = Tail(gw1_bench_picks)
    /\ i' = 1
    /\ pc' = "outfield"
    /\ UNCHANGED <<store, calls, outcomes, error, u, g, results, totals, flags, at_gw_start>>

AutoSubKeeper ==
    /\ pc = "keeper"
    /\ LET gk_bench_pick == gw1_bench_picks[1]
           gk_player_id == gk_bench_pick.element
           gk_bench_player_gw ==
               get_combined_gameweek_result_for_player(gk_player_id, gw_numbers[g])
           sub == KeeperSubApplies(gw.gk, gk_bench_player_gw.minutes)
       IN /\ gw' = IF sub THEN [gw EXCEPT !.gk = players[gk_player_id].id] ELSE gw
          /\ totals' = IF sub
                       THEN [totals EXCEPT !.total_auto_sub_points =
                                               @ + gk_bench_player_gw.total_points]
                       ELSE totals
          /\ subs_in' = IF sub THEN Append(subs_in, gk_player_id) ELSE subs_in
    /\ gw_bench_picks' = Tail(gw1_bench_picks)
    /\ i' = 1
    /\ pc' = "outfield"
    /\ UNCHANGED <<store, calls, outcomes, error, u, g, results, flags, at_gw_start>>

\* lines 852-927: one pass of the for loop over gw_bench_picks; a for loop
\* that ends without a break hands over to the while, which starts it again
ScanBenchPick ==
    /\ pc = "outfield" /\ gw_bench_picks # <<>>
    /\ LET bench_pick == gw_bench_picks[i]
           pool == PoolSize(gw)
       IN IF OutfieldFull(pool)
          THEN /\ gw_bench_picks' = <<>>
               /\ i' = 1
               /\ flags' = NoFlags
               /\ UNCHANGED <<gw, totals, subs_in>>
          ELSE LET forced == ShouldBeForceSubbedIn(pool, Len(gw_bench_picks))
                   bench_player == players[bench_pick.element]
                   bench_player_gw ==
                       get_combined_gameweek_result_for_player(bench_player.id,
                                                               gw_numbers[g])
                   bench_player_pos == bench_player.element_type
                   subbed == /\ Played(bench_player_gw)
                             /\ CanSubIn(bench_player_pos, Len(gw.defs), Len(gw.mids),
                                         Len(gw.fwds), forced)
                   is_last_pick == i = Len(gw_bench_picks)
                   removed == ShouldBeRemoved(bench_player_gw.minutes, is_last_pick,
                                              subbed)
                   pooled == IF ~subbed THEN gw
                             ELSE IF bench_player_pos = DEFENDER
                             THEN [gw EXCEPT !.defs = Append(@, bench_player.id)]
                             ELSE [gw EXCEPT !.mids = Append(@, bench_player.id)]
               IN /\ flags' = [should_be_force_subbed_in |-> forced,
                               should_be_subbed_in |-> subbed,
                               should_be_removed |-> removed]
                  /\ IF removed
                     THEN /\ gw' = pooled
                          /\ gw_bench_picks' = RemoveAt(gw_bench_picks, i)
                          /\ i' = 1
                          /\ UNCHANGED <<totals, subs_in>>
                     ELSE IF subbed
                     THEN /\ gw' = [pooled EXCEPT !.total_gw_points =
                                                      @ + bench_player_gw.total_points]
                          /\ totals' = [totals EXCEPT !.total_auto_sub_points =
                                                   @ + bench_player_gw.total_points]
                          /\ subs_in' = Append(subs_in, bench_pick.element)
                          /\ gw_bench_picks' = RemoveAt(gw_bench_picks, i)
                          /\ i' = 1
                     ELSE /\ i' = IF is_last_pick THEN 1 ELSE i + 1
                          /\ UNCHANGED <<gw, totals, subs_in, gw_bench_picks>>
    /\ UNCHANGED <<store, calls, outcomes, pc, error, u, g, results, at_gw_start>>

\* line 930, when the while loop ends
EndGameweek ==
    /\ pc = "outfield" /\ gw_bench_picks = <<>>
    /\ totals' = [totals EXCEPT !.total_points = @ + gw.total_gw_points]
    /\ outcomes' = Append(outcomes, [user |-> u, gw_number |-> gw_numbers[g],
                                     gw |-> gw, subs_in |-> subs_in,
                                     at_gw_start |-> at_gw_start,
                                     totals |-> totals'])
    /\ g' = g + 1
    /\ pc' = "gameweek"
    /\ UNCHANGED <<store, calls, error, u, results, gw, gw_bench_picks, i, flags,
                   at_gw_start, subs_in>>

\* lines 960-974, when the gameweek loop ends
FinishUser ==
    /\ pc = "gameweek" /\ g > Len(gw_numbers)
    /\ results' = Append(results, ResultRow(users[u].id, totals))
    /\ u' = u + 1
    /\ pc' = "user"
    /\ UNCHANGED <<store, calls, outcomes, error, g, totals, gw, gw_bench_picks, i, flags,
                   at_gw_start, subs_in>>

\* the loop over the users ends: the call returns
Return ==
    /\ pc = "user" /\ u > Len(users)
    /\ pc' = "done"
    /\ UNCHANGED <<store, calls, outcomes, error, u, g, results, totals, gw, gw_bench_picks, i, flags,
                   at_gw_start, subs_in>>

\* get_combined_gameweek_result_for_player(player_id, gameweek_number), called
\* on the loaded analyzer for a player of the store or an id it does not hold
CallCombinedResult ==
    \E player_id \in DOMAIN players \cup {Len(players) + 1},
       gameweek_number \in 1..(Len(gameweeks) + 1) :
        /\ called' = [method |-> "get_combined_gameweek_result_for_player",
                      player_id |-> player_id, gameweek_number |-> gameweek_number]
        /\ returned' =
               IF LookupError(player_id) # ""
               THEN [error |-> LookupError(player_id)]
               ELSE [error |-> "",
                     value |-> get_combined_gameweek_result_for_player(player_id,
                                                                       gameweek_number)]
        /\ UNCHANGED <<store, locals>>

\* get_captain_foresight(), called on the loaded analyzer
CallCaptainForesight ==
    /\ called = NoCall
    /\ called' = [method |-> "get_captain_foresight"]
    /\ returned' = [error |-> "", value |-> get_captain_foresight]
    /\ UNCHANGED <<store, locals>>

Next ==
    \/ SkipUser
    \/ RejectUser
    \/ SetupUser
    \/ StartGameweek
    \/ AddCaptainPoints
    \/ AutoSubKeeper
    \/ ScanBenchPick
    \/ EndGameweek
    \/ FinishUser
    \/ Return

\* the state when the call begins, the stores loaded
Loaded(inp) ==
    /\ players = inp.players
    /\ users = inp.users
    /\ gameweeks = inp.gameweeks
    /\ pc = "user"
    /\ error = ""
    /\ u = 1
    /\ g = 1
    /\ results = <<>>
    /\ totals = ZeroTotals
    /\ gw = EmptyGw
    /\ gw_bench_picks = <<>>
    /\ i = 1
    /\ flags = NoFlags
    /\ at_gw_start = ZeroTotals
    /\ subs_in = <<>>
    /\ outcomes = <<>>
    /\ called = NoCall
    /\ returned = NoReturn

\* one user, one finished gameweek followed by an unfinished one: every
\* formation and pattern of missing starters, with every bench while both
\* goalkeepers played, and with every pair of goalkeeper minutes while the
\* three outfield bench picks are alike
SubstitutionInit ==
    \E form \in Formations :
    \E pat \in AbsentPatterns(form), choice \in BenchChoices,
       gks \in SUBSET {1, NumStarters + 1} :
        /\ gks = {} \/ \A s \in OutfieldBench : choice[s] = choice[NumStarters + 2]
        /\ Loaded(MakeStore(form, BenchPos(choice),
                            <<AbsentStarters(form, pat) \cup BenchAbsent(choice) \cup gks,
                              {}>>,
                            <<TRUE, FALSE>>,
                            <<[id |-> 1, picks |-> SquadPicks(4, 3, 2)]>>))

\* one user, every captain, vice-captain and captain multiplier; the captain,
\* the vice-captain, both or neither without minutes; of the bench only the
\* vice-captain can have minutes
CaptaincyInit ==
    \E cap \in 1..NumStarters :
    \E vc \in 1..SquadSize \ {cap} :
    \E mult \in {2, 3}, out \in SUBSET {cap, vc} :
        Loaded(MakeStore(<<4, 4, 2>>, CaptaincyBench,
                         <<((NumStarters + 1)..SquadSize \ {vc}) \cup out, {}>>,
                         <<TRUE, FALSE>>,
                         <<[id |-> 1, picks |-> SquadPicks(cap, vc, mult)]>>))

\* a user who joined after gameweek 1 (no picks) before or after a user with a
\* squad, two finished gameweeks
LateJoinerInit ==
    \E a1 \in 1..3, a2 \in 10..12, first \in BOOLEAN :
        Loaded(MakeStore(<<4, 4, 2>>, CaptaincyBench, <<{a1}, {a2}>>, <<TRUE, TRUE>>,
                         <<[id |-> 1, picks |-> IF first THEN <<>> ELSE SquadPicks(4, 3, 2)],
                           [id |-> 2, picks |-> IF first THEN SquadPicks(4, 3, 2) ELSE <<>>]>>))

\* a user who joined after gameweek 1 between two users who hold the same
\* squad, two finished gameweeks
BracketedInit ==
    \E a1 \in 1..3, a2 \in 10..12 :
        Loaded(MakeStore(<<4, 4, 2>>, CaptaincyBench, <<{a1}, {a2}>>, <<TRUE, TRUE>>,
                         <<[id |-> 1, picks |-> SquadPicks(4, 3, 2)],
                           [id |-> 2, picks |-> <<>>],
                           [id |-> 3, picks |-> SquadPicks(4, 3, 2)]>>))

\* a squad the call rejects, after a user with a well-formed squad
MalformedInit ==
    \E p \in MalformedPicks :
        Loaded(MakeStore(<<4, 4, 2>>, CaptaincyBench, <<{}>>, <<TRUE>>,
                         <<[id |-> 1, picks |-> SquadPicks(4, 3, 2)],
                           [id |-> 2, picks |-> p]>>))

\* two users and one finished gameweek: either both users hold the same squad,
\* its starting goalkeeper without minutes, or the second user holds the squad
\* of the first but for the two goalkeepers, whose minutes differ from those
\* of the first user's
RepeatInit ==
    \E form \in Formations :
    \E pat \in AbsentPatterns(form) :
        \/ \E choice \in AlikeBenches :
              LET absent == <<AbsentStarters(form, pat) \cup BenchAbsent(choice) \cup {1},
                             {}>>
              IN Loaded(WithSpareKeepers(
                     MakeStore(form, BenchPos(choice), absent, <<TRUE, FALSE>>,
                               <<[id |-> 1, picks |-> SquadPicks(4, 3, 2)],
                                 [id |-> 2, picks |-> SquadPicks(4, 3, 2)]>>),
                     absent))
        \/ \E choice \in MixedBenches,
               gks \in {{SpareKeepers[1]}, {1, SpareKeepers[1], SpareKeepers[2]}} :
              LET absent == <<AbsentStarters(form, pat) \cup gks, {}>>
              IN Loaded(WithSpareKeepers(
                     MakeStore(form, BenchPos(choice), absent, <<TRUE, FALSE>>,
                               <<[id |-> 1, picks |-> SquadPicks(4, 3, 2)],
                                 [id |-> 2, picks |-> OtherKeepers(SquadPicks(4, 3, 2))]>>),
                     absent))

\* one user whose squad has a designation twice; the first captain, the second
\* or neither without minutes
DuplicateInit ==
    \E p \in DuplicatePicks, out \in {{}, {4}, {6}} :
        Loaded(MakeStore(<<4, 4, 2>>, CaptaincyBench, <<out>>, <<TRUE>>,
                         <<[id |-> 1, picks |-> p]>>))

Init ==
    \/ SubstitutionInit
    \/ CaptaincyInit
    \/ LateJoinerInit
    \/ MalformedInit
    \/ DuplicateInit

Spec == Init /\ [][Next]_vars

\* the fixture records a player can have: a round, minutes or none, points
\* below, at or above zero, a bonus with the points above zero
FixtureRecords ==
    {Fixture(round, minutes, total_points, IF total_points > 0 THEN 1 ELSE 0) :
        round \in 1..2, minutes \in {0, 90}, total_points \in {-1, 0, 3}}

\* a store of one player with up to MaxFixtures fixture records in any order,
\* no user, two gameweeks
AggregatorInit ==
    \E n \in 0..MaxFixtures :
    \E history \in [1..n -> FixtureRecords] :
        Loaded([players |-> <<[id |-> 1, element_type |-> MIDFIELDER,
                               history |-> history]>>,
                users |-> <<>>,
                gameweeks |-> <<[id |-> 1, finished |-> TRUE],
                                [id |-> 2, finished |-> TRUE]>>])

\* calls of the aggregator, any number of them
AggregatorSpec == AggregatorInit /\ [][CallCombinedResult]_vars

\* the picks of a gameweek as the data holds them after it was played: the
\* captain's multiplier 0 when it had no minutes, else mult; the
\* vice-captain's mult when it stepped in, else 1 in the eleven, 0 on the bench
ForesightPicks(cap, vc, mult, out) ==
    [SquadPicks(cap, vc, IF cap \in out THEN 0 ELSE mult) EXCEPT
        ![vc].multiplier = IF vc \in out THEN 0
                           ELSE IF cap \in out THEN mult
                           ELSE IF vc > NumStarters THEN 0 ELSE 1]

\* two users, one gameweek: the first with a captain and vice-captain of whom
\* either, both or none played, under a double or triple captaincy; the
\* second a late joiner or with another captain
ForesightInit ==
    \E cap \in {2, 4, 9, NumStarters}, vc \in {3, NumStarters + 2}, mult \in {2, 3} :
    \E out \in SUBSET {cap, vc} :
    \E other \in {<<>>, SquadPicks(6, 5, 2), SquadPicks(6, 5, 3)} :
        Loaded(MakeStore(<<4, 4, 2>>, CaptaincyBench, <<out>>, <<TRUE>>,
                         <<[id |-> 1, picks |-> ForesightPicks(cap, vc, mult, out)],
                           [id |-> 2, picks |-> other]>>))

\* one call of get_captain_foresight
ForesightSpec == ForesightInit /\ [][CallCaptainForesight]_vars

\* one user and a season of SeasonLength gameweeks, each finished or not; a
\* goalkeeper, the captain or a midfielder without minutes in every gameweek
\* but the second, a defender or a forward in the second
SeasonInit ==
    \E finished \in [1..SeasonLength -> BOOLEAN], a \in {1, 4, 5}, b \in {2, 10} :
        Loaded(MakeStore(<<4, 4, 2>>, CaptaincyBench,
                         [r \in 1..SeasonLength |->
                             IF r = 2 THEN {b} ELSE {a}],
                         finished,
                         <<[id |-> 1, picks |-> SquadPicks(4, 3, 2)]>>))

\* one user whose squad holds a pick of position MANAGER, in the starting
\* eleven or on the bench, with or without minutes; a defender, a midfielder,
\* both or neither of the starters without minutes
ManagerInit ==
    \E slot \in {NumStarters, NumStarters + 2, SquadSize}, idle \in BOOLEAN,
       out \in SUBSET {2, 5} :
        LET inp == MakeStore(<<4, 4, 2>>, CaptaincyBench,
                             <<out \cup (IF idle THEN {slot} ELSE {}), {}>>,
                             <<TRUE, FALSE>>,
                             <<[id |-> 1, picks |-> SquadPicks(4, 3, 2)]>>)
        IN Loaded([inp EXCEPT !.players[slot].element_type = MANAGER])

\* the call over squads with a manager pick
ManagerSpec == (ManagerInit \/ LateJoinerInit \/ MalformedInit) /\ [][Next]_vars

\* the call over leagues with a late joiner
LateJoinerSpec == (BracketedInit \/ LateJoinerInit \/ MalformedInit) /\ [][Next]_vars

\* the call over a season
SeasonSpec == (SeasonInit \/ LateJoinerInit \/ MalformedInit) /\ [][Next]_vars

\* the call over users whose squads are alike
RepeatSpec == (RepeatInit \/ LateJoinerInit \/ MalformedInit) /\ [][Next]_vars

\* the call is one thread that runs to its end: a step that can be taken is taken
FairSpec == Spec /\ WF_vars(Next)

\* ------------------------------------------------------------ properties
\* the gameweek being evaluated and what the store holds for it
InGameweek == pc \in {"captain", "keeper", "outfield"}

CurrentGw == gw_numbers[g]

CombinedNow(id) == get_combined_gameweek_result_for_player(id, CurrentGw)

PlayedNow(id) == CombinedNow(id).minutes > 0

RECURSIVE PointsOver(_)
PointsOver(S) ==
    IF S = {} THEN 0
    ELSE LET p == CHOOSE x \in S : TRUE
         IN CombinedNow(p).total_points + PointsOver(S \ {p})

StarterIds == {gw1_all_picks[s].element : s \in 1..NumStarters}

StartersWhoPlayed == {p \in StarterIds : PlayedNow(p)}

OutfieldStartersWhoPlayed ==
    {p \in StartersWhoPlayed : players[p].element_type # GOALKEEPER}

BackupKeeper == gw1_all_picks[NumStarters + 1].element

StartingKeepers == {p \in StarterIds : players[p].element_type = GOALKEEPER}

CaptainId == gw1_all_picks[captain_index].element

ViceCaptainId == gw1_all_picks[vc_index].element

CaptainMultiplier == gw1_all_picks[captain_index].multiplier

\* the squad invariants: 11 + 4 picks of distinct players, one captain, a
\* starter, one vice-captain, another pick, one starting goalkeeper, the backup
\* goalkeeper in bench slot 1, outfield players in the other slots
ValidSquad ==
    /\ InGameweek
    /\ Len(gw1_all_picks) = SquadSize
    /\ Cardinality({s \in 1..SquadSize : gw1_all_picks[s].is_captain}) = 1
    /\ Cardinality({s \in 1..SquadSize : gw1_all_picks[s].is_vice_captain}) = 1
    /\ captain_index \in 1..NumStarters
    /\ vc_index # captain_index
    /\ Cardinality({gw1_all_picks[s].element : s \in 1..SquadSize}) = SquadSize
    /\ Cardinality(StartingKeepers) = 1
    /\ players[BackupKeeper].element_type = GOALKEEPER
    /\ \A s \in 1..SquadSize :
          s # 1 /\ s # NumStarters + 1 =>
              players[gw1_all_picks[s].element].element_type
                  \in {DEFENDER, MIDFIELDER, ATTACKER}

\* what the current gameweek added to the counters so far
CaptainDelta == totals.total_captain_points - at_gw_start.total_captain_points

ViceCaptainDelta ==
    totals.total_vice_captain_points - at_gw_start.total_vice_captain_points

AutoSubDelta == totals.total_auto_sub_points - at_gw_start.total_auto_sub_points

\* the outfield stage is over: the while loop found the bench queue empty
StageOver == pc = "outfield" /\ gw_bench_picks = <<>>

\* a pass of the for loop is about to examine gw_bench_picks[i]
Scanning == pc = "outfield" /\ gw_bench_picks # <<>>

Candidate == gw_bench_picks[i].element

CandidatePos == players[Candidate].element_type

OpenSlots == MaxOutfield - PoolSize(gw)

\* C1: for a valid squad the gameweek total equals the combined points of the
\* final scoring set (starters who played and every promoted bench player,
\* the backup goalkeeper included) plus the captain / vice-captain extra
C1_Conservation ==
    StageOver /\ ValidSquad =>
        gw.total_gw_points =
            PointsOver(StartersWhoPlayed \cup Range(subs_in))
                + CaptainDelta + ViceCaptainDelta

\* C2: when the captain played, the extra added to the gameweek total and to
\* the captain counter is (captain multiplier - 1) * the captain's combined points
C2_CaptainExtra ==
    pc = "keeper" /\ ValidSquad /\ PlayedNow(CaptainId) =>
        /\ CaptainDelta = (CaptainMultiplier - 1) * CombinedNow(CaptainId).total_points
        /\ gw.total_gw_points = PointsOver(StartersWhoPlayed) + CaptainDelta

\* C3: when the captain did not play and the vice-captain did, the
\* vice-captain's points are added to the gameweek total and to the
\* vice-captain counter, for a vice-captain among the starters or on the bench
C3_ViceCaptainStepsIn ==
    pc = "keeper" /\ ValidSquad /\ ~PlayedNow(CaptainId) /\ PlayedNow(ViceCaptainId) =>
        /\ ViceCaptainDelta = CombinedNow(ViceCaptainId).total_points
        /\ gw.total_gw_points = PointsOver(StartersWhoPlayed) + ViceCaptainDelta

\* C4: when captain and vice-captain both played only the captain's extra is
\* added, the vice-captain counter stays as it was, and never both extras are added
C4_NoDoublePay ==
    ValidSquad /\ pc \in {"keeper", "outfield"} =>
        /\ (PlayedNow(CaptainId) /\ PlayedNow(ViceCaptainId) =>
               /\ ViceCaptainDelta = 0
               /\ (pc = "keeper" =>
                      gw.total_gw_points = PointsOver(StartersWhoPlayed) + CaptainDelta))
        /\ (CaptainDelta = 0 \/ ViceCaptainDelta = 0)

C4_Witness ==
    /\ ValidSquad /\ pc = "keeper"
    /\ PlayedNow(CaptainId) /\ PlayedNow(ViceCaptainId)
    /\ CombinedNow(ViceCaptainId).total_points # 0
    /\ CaptainDelta # 0

\* C5: when neither captain nor vice-captain played no extra is added, both
\* counters stay as they were, and the evaluation goes on without an error
C5_NoCaptainPoints ==
    ValidSquad /\ pc \in {"keeper", "outfield"}
        /\ ~PlayedNow(CaptainId) /\ ~PlayedNow(ViceCaptainId) =>
        /\ CaptainDelta = 0
        /\ ViceCaptainDelta = 0
        /\ (pc = "keeper" => gw.total_gw_points = PointsOver(StartersWhoPlayed))
        /\ error = ""

C5_Witness ==
    /\ ValidSquad /\ StageOver
    /\ ~PlayedNow(CaptainId) /\ ~PlayedNow(ViceCaptainId)
    /\ CombinedNow(CaptainId).total_points # 0

\* C6: the backup goalkeeper is promoted exactly when the starting goalkeeper
\* has no minutes and the backup has some; this is settled while no outfield
\* bench pick has been examined, and bench slot 1 leaves the queue either way
C6_KeeperStage ==
    [][pc = "keeper" /\ ValidSquad =>
         LET promote == /\ \A k \in StartingKeepers : ~PlayedNow(k)
                        /\ PlayedNow(BackupKeeper)
         IN /\ subs_in = <<>>
            /\ Range(gw.defs) \cup Range(gw.mids) \cup Range(gw.fwds)
                   = OutfieldStartersWhoPlayed
            /\ (gw'.gk = BackupKeeper) = promote
            /\ subs_in' = IF promote THEN <<BackupKeeper>> ELSE <<>>
            /\ AutoSubDelta' = IF promote THEN CombinedNow(BackupKeeper).total_points
                               ELSE 0
            /\ gw_bench_picks' = SubSeq(gw1_all_picks, NumStarters + 2, SquadSize)
            /\ PoolSize(gw') = PoolSize(gw)
            /\ pc' = "outfield" /\ i' = 1]_vars

C6_Witness ==
    /\ ValidSquad /\ pc = "outfield"
    /\ gw.gk = BackupKeeper
    /\ subs_in = <<BackupKeeper>>
    /\ Len(gw_bench_picks) = BenchSize - 1

\* the formation rule of the specification for an outfield position
FormationAllows(pos, st) ==
    IF pos = DEFENDER
    THEN Len(st.defs) < MIN_DEFS \/ (Len(st.mids) >= MIN_MIDS /\ Len(st.fwds) >= MIN_FWDS)
    ELSE IF pos = MIDFIELDER
    THEN Len(st.mids) < MIN_MIDS \/ (Len(st.defs) >= MIN_DEFS /\ Len(st.fwds) >= MIN_FWDS)
    ELSE Len(st.fwds) < MIN_FWDS \/ (Len(st.defs) >= MIN_DEFS /\ Len(st.mids) >= MIN_MIDS)

\* the pass examines a candidate who played while the pool has an open slot
ScansPlayed == Scanning /\ ValidSquad /\ ~OutfieldFull(PoolSize(gw)) /\ PlayedNow(Candidate)

Promoted ==
    /\ flags'.should_be_subbed_in
    /\ subs_in' = Append(subs_in, Candidate)
    /\ PoolSize(gw') = PoolSize(gw) + 1

\* C7: a scanned candidate who played, defender, midfielder or forward, is
\* promoted exactly when its position is below its minimum, or the other two
\* positions meet theirs, or forced is true
C7_Eligibility ==
    [][ScansPlayed /\ CandidatePos \in {DEFENDER, MIDFIELDER, ATTACKER} =>
         (Promoted <=>
             FormationAllows(CandidatePos, gw) \/ flags'.should_be_force_subbed_in)]_vars

\* C8 as stated: forced is true exactly when the candidates left in the queue
\* are as many as the open outfield slots
C8_ForcedExactFit ==
    [][Scanning /\ ValidSquad =>
         (flags'.should_be_force_subbed_in <=> Len(gw_bench_picks) = OpenSlots)]_vars

\* C8 amended: forced is true exactly when the pool is not full and the
\* candidates left in the queue are at most as many as the open outfield slots
C8_ForcedWhenAllFit ==
    [][Scanning /\ ValidSquad =>
         (flags'.should_be_force_subbed_in <=>
             (OpenSlots > 0 /\ Len(gw_bench_picks) <= OpenSlots))]_vars

\* a candidate was scanned with forced true while fewer candidates than open
\* slots were left, and was removed
C8_Witness ==
    /\ ValidSquad /\ pc = "outfield"
    /\ flags.should_be_force_subbed_in /\ flags.should_be_removed
    /\ Len(gw_bench_picks) + 1 < OpenSlots

\* C9: whenever forced is true for a scanned candidate who played, the
\* candidate is promoted, whatever its position
C9_ForcedPromotes ==
    [][ScansPlayed /\ flags'.should_be_force_subbed_in => Promoted]_vars

AllTenPlayed == Cardinality(OutfieldStartersWhoPlayed) = MaxOutfield

\* C10: with one starting goalkeeper the outfield pool never holds more than
\* 10 players; a pass that finds it holding 10 promotes nobody and discards the
\* rest of the bench; when all ten outfield starters played no outfield bench
\* pick is promoted
C10_PoolBound ==
    [][ValidSquad' =>
         /\ PoolSize(gw') <= MaxOutfield
         /\ (Scanning /\ PoolSize(gw) = MaxOutfield =>
                gw_bench_picks' = <<>> /\ gw' = gw /\ subs_in' = subs_in
                    /\ totals' = totals)
         /\ (pc' = "outfield" /\ AllTenPlayed' => Range(subs_in') \subseteq {BackupKeeper'})
      ]_vars

C10_Witness ==
    /\ ValidSquad /\ StageOver /\ AllTenPlayed
    /\ PoolSize(gw) = MaxOutfield
    /\ \E s \in OutfieldBench : PlayedNow(gw1_all_picks[s].element)
    /\ flags = NoFlags

\* C11: for a valid squad every pass of the scan over the bench queue either
\* shortens the queue (removes a candidate, promotes one, or clears it) or moves
\* on to a later candidate of the queue, no pass raises an error, and the stage
\* ends with the queue empty, also when fewer than ten outfield players or a
\* position below its minimum is all there is
C11_StageTerminates ==
    /\ [][Scanning /\ ValidSquad =>
            /\ i \in 1..Len(gw_bench_picks)
            /\ error' = "" /\ pc' = "outfield"
            /\ \/ Len(gw_bench_picks') < Len(gw_bench_picks)
               \/ /\ gw_bench_picks' = gw_bench_picks
                  /\ i' = i + 1 /\ i' <= Len(gw_bench_picks)]_vars
    /\ (pc = "outfield" /\ ValidSquad ~> StageOver /\ error = "")

C11_Witness ==
    /\ ValidSquad /\ StageOver /\ error = ""
    /\ PoolSize(gw) < MaxOutfield - 1
    /\ Len(gw.defs) < MIN_DEFS
    /\ Len(subs_in) = 1 /\ subs_in[1] # BackupKeeper

\* the players of a position in the pool, and the minimum the formation asks of it
PoolCount(pos, st) ==
    IF pos = DEFENDER THEN Len(st.defs)
    ELSE IF pos = MIDFIELDER THEN Len(st.mids) ELSE Len(st.fwds)

MinCount(pos) ==
    IF pos = DEFENDER THEN MIN_DEFS ELSE IF pos = MIDFIELDER THEN MIN_MIDS ELSE MIN_FWDS

\* outfield bench picks of a position who played and were not promoted
LeftOnBench(pos) ==
    {s \in OutfieldBench :
        /\ players[gw1_all_picks[s].element].element_type = pos
        /\ PlayedNow(gw1_all_picks[s].element)
        /\ gw1_all_picks[s].element \notin Range(subs_in)}

\* C12: when the outfield stage ends with fewer than 10 players in the pool, no
\* position (defender, midfielder, forward) is below its minimum while a bench
\* candidate of that position who played was left unpromoted
C12_NoFixableDeficiency ==
    StageOver /\ ValidSquad /\ PoolSize(gw) < MaxOutfield =>
        \A pos \in {DEFENDER, MIDFIELDER, ATTACKER} :
            PoolCount(pos, gw) < MinCount(pos) => LeftOnBench(pos) = {}

\* the outfield bench picks an evaluation promoted, in order
OutfieldSubs(o) ==
    SelectSeq(o.subs_in, LAMBDA e : players[e].element_type # GOALKEEPER)

\* two squads that differ at most in the players of the two goalkeeper slots
SameButKeepers(p, q) ==
    /\ Len(p) = Len(q)
    /\ \A s \in 1..Len(p) :
          IF s \in {1, NumStarters + 1}
          THEN /\ [p[s] EXCEPT !.element = NoPlayer] = [q[s] EXCEPT !.element = NoPlayer]
               /\ players[p[s].element].element_type = GOALKEEPER
               /\ players[q[s].element].element_type = GOALKEEPER
          ELSE p[s] = q[s]

\* C13: two evaluations of one gameweek for squads that differ only in their
\* starting and backup goalkeeper (and so in those two players' minutes) promote
\* the same outfield bench players in the same order and end with the same
\* numbers of defenders, midfielders and forwards
C13_KeeperIndependence ==
    \A a, b \in 1..Len(outcomes) :
        /\ outcomes[a].gw_number = outcomes[b].gw_number
        /\ SameButKeepers(users[outcomes[a].user].picks, users[outcomes[b].user].picks)
        => /\ OutfieldSubs(outcomes[a]) = OutfieldSubs(outcomes[b])
           /\ Len(outcomes[a].gw.defs) = Len(outcomes[b].gw.defs)
           /\ Len(outcomes[a].gw.mids) = Len(outcomes[b].gw.mids)
           /\ Len(outcomes[a].gw.fwds) = Len(outcomes[b].gw.fwds)

\* the first evaluation had its goalkeeper promoted from the bench, the second
\* ended without a goalkeeper, and both promoted the same two bench players
C13_Witness ==
    /\ Len(outcomes) = 2
    /\ outcomes[1].user # outcomes[2].user
    /\ SameButKeepers(users[1].picks, users[2].picks)
    /\ outcomes[1].gw.gk = users[1].picks[NumStarters + 1].element
    /\ outcomes[2].gw.gk = NoPlayer
    /\ Len(OutfieldSubs(outcomes[2])) = 2
    /\ OutfieldSubs(outcomes[1]) = OutfieldSubs(outcomes[2])

\* what an evaluated gameweek added to the four totals
Added(o) ==
    [total_points |-> o.totals.total_points - o.at_gw_start.total_points,
     total_captain_points |->
         o.totals.total_captain_points - o.at_gw_start.total_captain_points,
     total_vice_captain_points |->
         o.totals.total_vice_captain_points - o.at_gw_start.total_vice_captain_points,
     total_auto_sub_points |->
         o.totals.total_auto_sub_points - o.at_gw_start.total_auto_sub_points]

\* C14: evaluations of the same squad for the same gameweek against the same
\* records end with the same gameweek total, captain, vice-captain and auto-sub
\* points, pools and promoted players, whatever was evaluated before them; users
\* with the same squad get the same row; and no step of the call changes the
\* stored picks, records or gameweeks
C14_Repeatable ==
    /\ [](\A a, b \in 1..Len(outcomes) :
             /\ outcomes[a].gw_number = outcomes[b].gw_number
             /\ users[outcomes[a].user].picks = users[outcomes[b].user].picks
             => /\ outcomes[a].gw = outcomes[b].gw
                /\ outcomes[a].subs_in = outcomes[b].subs_in
                /\ Added(outcomes[a]) = Added(outcomes[b]))
    /\ [](\A a, b \in 1..Len(results) :
             users[a].picks = users[b].picks =>
                 [results[a] EXCEPT !.user_id = 0] = [results[b] EXCEPT !.user_id = 0])
    /\ [][store' = store]_vars

\* the call returned two rows for two users with the same squad, whose backup
\* goalkeeper and two outfield bench picks were promoted for points
C14_Witness ==
    /\ pc = "done" /\ Len(results) = 2 /\ Len(outcomes) = 2
    /\ outcomes[1].user = 1 /\ outcomes[2].user = 2
    /\ users[1].picks = users[2].picks
    /\ Len(outcomes[2].subs_in) = 3
    /\ results[2].total_points > 0
    /\ results[2].total_auto_sub_points > 0
    /\ results[2].total_captain_points > 0

\* the aggregator was called for a player the store holds
AggregatorCalled ==
    /\ called.method = "get_combined_gameweek_result_for_player"
    /\ called.player_id \in DOMAIN players

\* the fixture records of the called player that are of the called gameweek
CalledRecords ==
    {k \in 1..Len(players[called.player_id].history) :
        players[called.player_id].history[k].round = called.gameweek_number}

RECURSIVE SumOfRecords(_, _)
SumOfRecords(K, field) ==
    IF K = {} THEN 0
    ELSE LET k == CHOOSE x \in K : TRUE
         IN players[called.player_id].history[k][field] + SumOfRecords(K \ {k}, field)

\* C15: the combined result holds, for each statistic, the sum over the
\* player's fixture records of the gameweek (none, one or several), no
\* multiplier applied; without records every field is 0; and, minutes being
\* non-negative, the combined minutes are positive exactly when a record's are
C15_CombinedIsSum ==
    AggregatorCalled =>
        /\ returned.error = ""
        /\ \A field \in {"total_points", "minutes", "bonus"} :
              returned.value[field] = SumOfRecords(CalledRecords, field)
        /\ DOMAIN returned.value = {"total_points", "minutes", "bonus"}
        /\ (CalledRecords = {} => returned.value = ZeroResult)
        /\ (returned.value.minutes > 0 <=>
               \E k \in CalledRecords : players[called.player_id].history[k].minutes > 0)

\* a double gameweek, minutes in one fixture only, and a record of another round
C15_Witness ==
    /\ AggregatorCalled
    /\ Cardinality(CalledRecords) = 2
    /\ Len(players[called.player_id].history) = 3
    /\ \E k \in CalledRecords : players[called.player_id].history[k].minutes = 0
    /\ returned.value.minutes > 0
    /\ returned.value.total_points = 2

\* C16: the aggregator has no error outcome: called for a player id the store
\* does not hold, as for a gameweek without records, it returns the all-zero
\* combined result, which reads as "did not play"
C16_NoErrorOutcome ==
    called.method = "get_combined_gameweek_result_for_player" =>
        /\ returned.error = ""
        /\ (called.player_id \notin DOMAIN players \/ CalledRecords = {} =>
               returned.value = ZeroResult /\ ~(returned.value.minutes > 0))

\* the call is about to unpack the picks of user u
AtUser == pc = "user" /\ u <= Len(users)

NoCaptain(picks) == \A s \in 1..Len(picks) : ~picks[s].is_captain

NoViceCaptain(picks) == \A s \in 1..Len(picks) : ~picks[s].is_vice_captain

\* the squad is turned down: the call ends in an exception, no gameweek was
\* evaluated for the user and no row written for it
Rejected ==
    /\ pc' = "error" /\ error' # ""
    /\ results' = results /\ Len(results) < u
    /\ outcomes' = outcomes
    /\ \A k \in 1..Len(outcomes) : outcomes[k].user # u

\* C17 as stated: a squad whose pick count is not 15, or without a captain, or
\* without a vice-captain among its picks is rejected with an error before any
\* of its gameweeks is evaluated, and no total is reported for it
C17_MalformedRejected ==
    [][AtUser /\ (\/ Len(users[u].picks) # SquadSize
                  \/ NoCaptain(users[u].picks)
                  \/ NoViceCaptain(users[u].picks)) => Rejected]_vars

\* C17 amended: the same for a squad that has picks; a user without any pick
\* gets a row of zeros and no error
C17_NonEmptyMalformedRejected ==
    [][AtUser /\ users[u].picks # <<>>
              /\ (\/ Len(users[u].picks) # SquadSize
                  \/ NoCaptain(users[u].picks)
                  \/ NoViceCaptain(users[u].picks)) => Rejected]_vars

\* the call ended in an exception at the second user, whose squad has a
\* vice-captain and no captain; the row of the first user is lost with it
C17_Witness ==
    /\ pc = "error" /\ error = "StopIteration"
    /\ u = 2 /\ Len(users[u].picks) = SquadSize
    /\ NoCaptain(users[u].picks) /\ ~NoViceCaptain(users[u].picks)
    /\ Len(results) = 1 /\ results[1].user_id = users[1].id
    /\ Len(outcomes) = 1 /\ outcomes[1].user = 1

\* C18: a squad with two picks flagged captain, two flagged vice-captain, or
\* one pick flagged both is rejected with an error before any of its gameweeks
\* is evaluated
C18_DuplicateRejected ==
    [][AtUser /\ Len(users[u].picks) = SquadSize
              /\ (\/ Cardinality({s \in 1..SquadSize : users[u].picks[s].is_captain}) > 1
                  \/ Cardinality({s \in 1..SquadSize :
                                     users[u].picks[s].is_vice_captain}) > 1
                  \/ \E s \in 1..SquadSize : /\ users[u].picks[s].is_captain
                                             /\ users[u].picks[s].is_vice_captain)
          => Rejected]_vars

\* every player in the goalkeeper slot or a position pool
Pooled(st) ==
    Range(st.defs) \cup Range(st.mids) \cup Range(st.fwds)
        \cup (IF st.gk = NoPlayer THEN {} ELSE {st.gk})

\* the players of the picks in a queue
QueueIds(q) == {q[j].element : j \in 1..Len(q)}

\* C19: a player without combined minutes contributes nothing to the gameweek.
\* A starter without minutes is in no pool and adds no points, as pick or as
\* captain or vice-captain; a bench candidate without minutes leaves the queue
\* in the pass that scans it, forced or not, with pools, totals and promotions
\* as they were; nobody without minutes is ever in a pool or promoted
C19_NoMinutesNoPart ==
    /\ [](ValidSquad =>
            /\ \A p \in Pooled(gw) \cup Range(subs_in) : PlayedNow(p)
            /\ (pc \in {"captain", "keeper"} =>
                   gw.total_gw_points =
                       PointsOver(StartersWhoPlayed) + CaptainDelta + ViceCaptainDelta)
            /\ (~PlayedNow(CaptainId) => CaptainDelta = 0)
            /\ (~PlayedNow(ViceCaptainId) => ViceCaptainDelta = 0))
    /\ [][Scanning /\ ValidSquad /\ ~PlayedNow(Candidate) =>
            /\ Candidate \notin QueueIds(gw_bench_picks')
            /\ ~flags'.should_be_subbed_in
            /\ (~OutfieldFull(PoolSize(gw)) =>
                   /\ flags'.should_be_removed
                   /\ gw_bench_picks' = RemoveAt(gw_bench_picks, i))
            /\ gw' = gw /\ totals' = totals /\ subs_in' = subs_in]_vars

\* a bench candidate without minutes, its fixture record worth points other
\* than 0, was removed in a pass in which forced was true, and a starter
\* without minutes has such a record too
C19_Witness ==
    /\ ValidSquad /\ pc = "outfield"
    /\ flags.should_be_force_subbed_in /\ flags.should_be_removed
    /\ Len(gw_bench_picks) = 1
    /\ \E s \in OutfieldBench :
          /\ gw1_all_picks[s].element \notin QueueIds(gw_bench_picks)
          /\ ~PlayedNow(gw1_all_picks[s].element)
          /\ CombinedNow(gw1_all_picks[s].element).total_points # 0
    /\ \E p \in StarterIds \ StartersWhoPlayed : CombinedNow(p).total_points # 0
    /\ subs_in = <<>>

\* the user a row of the foresight is about
UserOfRow(row) == users[CHOOSE k \in 1..Len(users) : users[k].id = row.id]

\* the pick whose multiplier counts for the user's gameweek: the captain when
\* its multiplier is not 0, else the vice-captain
CountedPick(user) ==
    IF FlaggedPick(user.picks, FALSE).multiplier # 0
    THEN FlaggedPick(user.picks, FALSE)
    ELSE FlaggedPick(user.picks, TRUE)

\* C20: the captain points get_captain_foresight reports for a gameweek are
\* only the extra ones, (multiplier - 1) * the unmultiplied combined points of
\* the captain, or of the vice-captain who stepped in: once the points under
\* a double, twice under a triple captaincy
C20_OnlyExtraPoints ==
    called.method = "get_captain_foresight" =>
        \A k \in 1..Len(returned.value) :
            LET row == returned.value[k]
                user == UserOfRow(row)
            IN user.picks # <<>> /\ CountedPick(user).multiplier >= 2 =>
                   row.total_captain_points =
                       (CountedPick(user).multiplier - 1)
                           * get_combined_gameweek_result_for_player(
                                 CountedPick(user).element, 1).total_points

RECURSIVE SumSeq(_)
SumSeq(q) == IF q = <<>> THEN 0 ELSE Head(q) + SumSeq(Tail(q))

\* the gameweeks evaluated for the user of index k, in order
OutcomesOf(k) == SelectSeq(outcomes, LAMBDA o : o.user = k)

\* the ids of the gameweeks whose finished flag is true, in order
FinishedGameweeks ==
    LET fin == SelectSeq(gameweeks, LAMBDA x : x.finished)
    IN [j \in 1..Len(fin) |-> fin[j].id]

\* what one evaluated gameweek gave: its total, its captain extra, its
\* vice-captain extra, the points of the bench players it promoted
GwCaptainPoints(o) == IF o.gw.captain_mins # 0 THEN o.gw.captain_points ELSE 0

GwViceCaptainPoints(o) ==
    IF o.gw.captain_mins = 0 /\ o.gw.vc_mins # 0 THEN o.gw.vc_points ELSE 0

GwAutoSubPoints(o) ==
    SumSeq([j \in 1..Len(o.subs_in) |->
               get_combined_gameweek_result_for_player(o.subs_in[j],
                                                       o.gw_number).total_points])

\* C21: the row of a user with gameweek-1 picks holds, as season total, the
\* sum of the gameweek totals of exactly the gameweeks flagged finished, each
\* evaluated once and in order, and as captain, vice-captain and auto-sub
\* totals the sums of the amounts of those gameweeks; a gameweek not finished
\* is not evaluated
C21_SeasonTotals ==
    \A k \in 1..Len(results) :
        users[k].picks # <<>> =>
            LET mine == OutcomesOf(k)
            IN /\ [j \in 1..Len(mine) |-> mine[j].gw_number] = FinishedGameweeks
               /\ results[k].total_points =
                      SumSeq([j \in 1..Len(mine) |-> mine[j].gw.total_gw_points])
               /\ results[k].total_captain_points =
                      SumSeq([j \in 1..Len(mine) |-> GwCaptainPoints(mine[j])])
               /\ results[k].total_vice_captain_points =
                      SumSeq([j \in 1..Len(mine) |-> GwViceCaptainPoints(mine[j])])
               /\ results[k].total_auto_sub_points =
                      SumSeq([j \in 1..Len(mine) |-> GwAutoSubPoints(mine[j])])

\* the call returned the row of a season whose first and last gameweek are
\* finished and whose second is not; a bench player was promoted in the first
C21_Witness ==
    /\ pc = "done" /\ Len(results) = 1
    /\ Len(gameweeks) = SeasonLength
    /\ gameweeks[1].finished /\ ~gameweeks[2].finished /\ gameweeks[SeasonLength].finished
    /\ Len(outcomes) = Cardinality({r \in 1..SeasonLength : gameweeks[r].finished})
    /\ outcomes[1].subs_in # <<>>
    /\ results[1].total_auto_sub_points # 0
    /\ results[1].total_captain_points # 0
    /\ results[1].total_points > outcomes[1].gw.total_gw_points

\* the last player promoted in the gameweek under evaluation
LastPromoted == subs_in[Len(subs_in)]

\* C22: a bench defender or midfielder who played and is scanned while the pool
\* has an open slot is promoted exactly when its position is below its
\* minimum, or the other two positions meet theirs, or forced is true; a
\* promotion adds one to its position's count and to no other, adds its points
\* to the gameweek total and to the auto-sub total, takes it out of the queue
\* and restarts the scan at the front
C22_DefenderMidfielderEligibility ==
    [][ScansPlayed /\ CandidatePos \in {DEFENDER, MIDFIELDER} =>
         /\ Promoted <=>
                FormationAllows(CandidatePos, gw) \/ flags'.should_be_force_subbed_in
         /\ Promoted =>
                /\ \A pos \in {DEFENDER, MIDFIELDER, ATTACKER} :
                       PoolCount(pos, gw') =
                           PoolCount(pos, gw) + (IF pos = CandidatePos THEN 1 ELSE 0)
                /\ gw'.total_gw_points =
                       gw.total_gw_points + CombinedNow(Candidate).total_points
                /\ totals'.total_auto_sub_points =
                       totals.total_auto_sub_points + CombinedNow(Candidate).total_points
                /\ gw_bench_picks' = RemoveAt(gw_bench_picks, i)
                /\ Candidate \notin QueueIds(gw_bench_picks')
                /\ i' = 1
         /\ ~Promoted => gw' = gw /\ totals' = totals /\ subs_in' = subs_in]_vars

\* a bench defender was promoted by the rule of the other two positions: not
\* forced, the defenders already at their minimum, candidates left in the queue
C22_Witness ==
    /\ ValidSquad /\ pc = "outfield" /\ gw_bench_picks # <<>>
    /\ flags.should_be_subbed_in /\ ~flags.should_be_force_subbed_in
    /\ subs_in # <<>>
    /\ players[LastPromoted].element_type = DEFENDER
    /\ Len(gw.defs) > MIN_DEFS
    /\ i = 1

\* the candidates ahead of the scanned one in the queue
Ahead == {gw_bench_picks[j].element : j \in 1..(i - 1)}

\* eligible by the formation rule or by forced, at this scan
EligibleNow(id) ==
    FormationAllows(players[id].element_type, gw) \/ flags'.should_be_force_subbed_in

\* C23: every promotion or removal restarts the scan at the front of the
\* remaining queue, the scan moves on to the next candidate only by examining
\* the one before it and leaving everything as it is, and a candidate is
\* promoted only if every candidate ahead of it in the queue played and was
\* not eligible at that scan
C23_BenchPriority ==
    [][Scanning /\ ValidSquad =>
         /\ gw_bench_picks' # gw_bench_picks => i' = 1
         /\ i' # 1 => /\ i' = i + 1
                      /\ gw_bench_picks' = gw_bench_picks /\ gw' = gw
                      /\ PlayedNow(Candidate)
         /\ Promoted => \A id \in Ahead : PlayedNow(id) /\ ~EligibleNow(id)]_vars

\* the outfield bench picks, in bench order
OutfieldBenchIds == {gw1_all_picks[s].element : s \in OutfieldBench}

BenchSlot(id) == CHOOSE s \in OutfieldBench : gw1_all_picks[s].element = id

\* C24: a candidate who played and is scanned as the last of the queue while
\* neither the formation rule nor forced makes it eligible is taken out of the
\* queue unpromoted; within a gameweek nobody enters the queue of the outfield
\* stage and only a member of the queue is promoted, so a candidate once
\* removed is promoted by no later pass, whatever the later promotions do to
\* the counts
C24_RemovedForGood ==
    [][pc = "outfield" /\ ValidSquad =>
         /\ (ScansPlayed /\ i = Len(gw_bench_picks) /\ ~EligibleNow(Candidate)) =>
                /\ gw_bench_picks' = SubSeq(gw_bench_picks, 1, i - 1)
                /\ flags'.should_be_removed
                /\ subs_in' = subs_in /\ gw' = gw /\ totals' = totals
         /\ pc' = "outfield" =>
                /\ QueueIds(gw_bench_picks') \subseteq QueueIds(gw_bench_picks)
                /\ Range(subs_in') \ Range(subs_in) \subseteq QueueIds(gw_bench_picks)
                /\ QueueIds(gw_bench_picks') \cap Range(subs_in') = {}]_vars

\* the first promotion of the outfield stage has just happened, by force,
\* while a defender or midfielder of lower priority who played is already out
\* of the queue: it was removed as the last of an earlier pass
C24_Witness ==
    /\ ValidSquad /\ pc = "outfield"
    /\ flags.should_be_subbed_in /\ flags.should_be_force_subbed_in
    /\ Len(OutfieldSubs([subs_in |-> subs_in])) = 1
    /\ \E b \in OutfieldBenchIds :
          /\ PlayedNow(b)
          /\ b \notin QueueIds(gw_bench_picks) /\ b \notin Range(subs_in)
          /\ BenchSlot(b) > BenchSlot(LastPromoted)
          /\ players[b].element_type \in {DEFENDER, MIDFIELDER}

\* the starters of a position who played in the gameweek under evaluation, in
\* pick order
StartersOf(positions) ==
    LET ids == [s \in 1..NumStarters |-> gw1_all_picks[s].element]
    IN SelectSeq(ids, LAMBDA id : PlayedNow(id) /\ players[id].element_type \in positions)

\* the starting line-up of the gameweek under evaluation, from the store alone
FreshLineup ==
    [total_gw_points |-> PointsOver(StartersWhoPlayed),
     captain_mins |-> CombinedNow(CaptainId).minutes,
     captain_points |-> CombinedNow(CaptainId).total_points,
     vc_mins |-> IF vc_index <= NumStarters THEN CombinedNow(ViceCaptainId).minutes ELSE 0,
     vc_points |-> IF vc_index <= NumStarters
                   THEN CombinedNow(ViceCaptainId).total_points ELSE 0,
     gk |-> IF StartersOf({GOALKEEPER}) = <<>> THEN NoPlayer
            ELSE StartersOf({GOALKEEPER})[1],
     defs |-> StartersOf({DEFENDER}),
     mids |-> StartersOf({MIDFIELDER}),
     fwds |-> StartersOf({ATTACKER})]

\* every player has the same combined minutes in the two gameweeks
SameMinutes(r1, r2) ==
    \A id \in DOMAIN players :
        get_combined_gameweek_result_for_player(id, r1).minutes =
            get_combined_gameweek_result_for_player(id, r2).minutes

\* who was in goal and in the pools, who was promoted, the captaincy minutes
LineupOf(o) ==
    <<o.gw.gk, o.gw.defs, o.gw.mids, o.gw.fwds, o.subs_in, o.gw.captain_mins, o.gw.vc_mins>>

\* C25: the store, and with it the gameweek-1 squad, is never changed; the
\* evaluation of every gameweek starts from the eleven starters of the squad
\* alone (pools, goalkeeper, captaincy minutes and gameweek total hold what the
\* starters who played give, whatever the gameweek before left), and its bench
\* queue starts as bench slots 2 to 4 of the squad in their order; two
\* gameweeks of a user in which everybody has the same minutes end with the
\* same line-up and promotions, whatever was evaluated in between
C25_FreshGameweek ==
    /\ [][store' = store]_vars
    /\ [](pc = "captain" /\ ValidSquad => gw = FreshLineup /\ subs_in = <<>>)
    /\ [][pc = "keeper" /\ ValidSquad =>
             /\ gw_bench_picks' = SubSeq(users[u].picks, NumStarters + 2, SquadSize)
             /\ i' = 1]_vars
    /\ [](\A a, b \in 1..Len(outcomes) :
             /\ outcomes[a].user = outcomes[b].user
             /\ SameMinutes(outcomes[a].gw_number, outcomes[b].gw_number)
             => LineupOf(outcomes[a]) = LineupOf(outcomes[b]))

\* a season of three evaluated gameweeks: the second promoted other bench
\* players than the first, the third has the minutes of the first and ends as
\* the first did
C25_Witness ==
    /\ pc = "done" /\ Len(outcomes) = SeasonLength
    /\ outcomes[1].subs_in # <<>> /\ outcomes[2].subs_in # <<>>
    /\ outcomes[1].subs_in # outcomes[2].subs_in
    /\ SameMinutes(outcomes[1].gw_number, outcomes[SeasonLength].gw_number)
    /\ ~SameMinutes(outcomes[1].gw_number, outcomes[2].gw_number)
    /\ LineupOf(outcomes[SeasonLength]) = LineupOf(outcomes[1])

\* the bench picks of the squad, and those of them now in goal or in a pool
BenchIds == {gw1_all_picks[s].element : s \in (NumStarters + 1)..SquadSize}

PromotedBench ==
    {b \in BenchIds :
        b = gw.gk \/ b \in Range(gw.defs) \cup Range(gw.mids) \cup Range(gw.fwds)}

\* C26: at every point of a gameweek's evaluation the auto-sub counter has
\* grown, since the gameweek began, by the sum of the combined total_points of
\* the bench players promoted so far, backup goalkeeper included; starters, the
\* captain's and vice-captain's extras and bench players not promoted add
\* nothing to it
C26_AutoSubCounter ==
    InGameweek /\ ValidSquad =>
        /\ AutoSubDelta = PointsOver(PromotedBench)
        /\ PromotedBench = Range(subs_in)
        /\ pc \in {"captain", "keeper"} => AutoSubDelta = 0

\* the stage is over: the backup goalkeeper and an outfield bench player were
\* promoted, another bench player who played was not, the captain's extra was
\* added, and the counter holds the points of the two promoted
C26_Witness ==
    /\ ValidSquad /\ StageOver
    /\ gw.gk = BackupKeeper
    /\ Cardinality(PromotedBench) = 2
    /\ \E b \in BenchIds \ PromotedBench : PlayedNow(b) /\ CombinedNow(b).total_points > 0
    /\ CaptainDelta > 0
    /\ AutoSubDelta > 0
    /\ AutoSubDelta < gw.total_gw_points

\* the picks of the squad whose player is of position MANAGER
ManagerIds ==
    {gw1_all_picks[s].element : s \in {t \in 1..Len(gw1_all_picks) :
                                         players[gw1_all_picks[t].element].element_type
                                             = MANAGER}}

\* C27: a pick of position MANAGER is in no pool and not in goal, is never
\* promoted from the bench, and as a starter adds nothing to the gameweek
\* total: after the starters loop the total is the sum over the starters who
\* played and are not managers
C27_ManagerInert ==
    InGameweek =>
        /\ ManagerIds \cap (Range(gw.defs) \cup Range(gw.mids) \cup Range(gw.fwds)
                               \cup {gw.gk}) = {}
        /\ ManagerIds \cap Range(subs_in) = {}
        /\ pc = "captain" =>
               gw.total_gw_points = PointsOver(StartersWhoPlayed \ ManagerIds)

Min(a, b) == IF a < b THEN a ELSE b

\* bench slots 2 to 4 hold defenders and midfielders only
DefMidBench ==
    \A b \in OutfieldBenchIds : players[b].element_type \in {DEFENDER, MIDFIELDER}

\* the outfield bench picks who played in the gameweek under evaluation
BenchWhoPlayed == {b \in OutfieldBenchIds : PlayedNow(b)}

\* C28: with only defenders and midfielders in bench slots 2 to 4, the
\* outfield stage ends with as many outfield bench players promoted as the
\* smaller of the open outfield slots (10 minus the outfield starters who
\* played) and the bench candidates who played
C28_OpenSlotsFilled ==
    StageOver /\ ValidSquad /\ DefMidBench =>
        Cardinality(PromotedBench \ {BackupKeeper}) =
            Min(MaxOutfield - Cardinality(OutfieldStartersWhoPlayed),
                Cardinality(BenchWhoPlayed))

\* the stage is over with the one open slot filled by a bench player of lower
\* priority than a candidate who played and was not promoted: the formation
\* minimums changed the order
C28_Witness ==
    /\ StageOver /\ ValidSquad /\ DefMidBench
    /\ Cardinality(OutfieldStartersWhoPlayed) = MaxOutfield - 1
    /\ PoolSize(gw) = MaxOutfield
    /\ \E a \in PromotedBench \ {BackupKeeper}, b \in BenchWhoPlayed \ PromotedBench :
          BenchSlot(b) < BenchSlot(a)

\* the squad slots of the picks in a queue
QueueSlots(q) == {q[j].position : j \in 1..Len(q)}

\* C29: in one gameweek nobody is promoted twice, at most the one backup
\* goalkeeper and at most three outfield bench picks are promoted, a promoted
\* pick is no longer in the queue, and the pick of bench slot 1 is never in the
\* queue of the outfield stage nor in an outfield pool
C29_PromotionBounds ==
    pc = "outfield" /\ Len(gw1_all_picks) = SquadSize =>
        /\ QueueSlots(gw_bench_picks) \subseteq OutfieldBench
        /\ Len(gw_bench_picks) <= BenchSize - 1
        /\ ValidSquad =>
               /\ Cardinality(Range(subs_in)) = Len(subs_in)
               /\ \A j \in 2..Len(subs_in) : subs_in[j] # BackupKeeper
               /\ Len(OutfieldSubs([subs_in |-> subs_in])) <= BenchSize - 1
               /\ Range(subs_in) \cap QueueIds(gw_bench_picks) = {}
               /\ BackupKeeper \notin QueueIds(gw_bench_picks)
               /\ BackupKeeper \notin
                      Range(gw.defs) \cup Range(gw.mids) \cup Range(gw.fwds)

\* the stage is over with the backup goalkeeper and all three outfield bench
\* picks promoted
C29_Witness ==
    /\ StageOver /\ ValidSquad
    /\ Len(subs_in) = BenchSize
    /\ subs_in[1] = BackupKeeper
    /\ gw.gk = BackupKeeper
    /\ PromotedBench = BenchIds

\* the user the call is about to set up joined after gameweek 1
AtLateJoiner == AtUser /\ users[u].picks = <<>>

\* C30: a user without gameweek-1 picks gets a row of four zeros in one step
\* that raises nothing, evaluates no gameweek and leaves the rows of the users
\* before it as they are; no gameweek is ever evaluated for such a user; the
\* row of every other user holds the sum of that user's own gameweek totals,
\* and two users with the same squad get the same row whether a late joiner
\* was handled before them or not
C30_LateJoinerRow ==
    /\ [][AtLateJoiner =>
             /\ error' = "" /\ pc' = "user" /\ u' = u + 1
             /\ outcomes' = outcomes
             /\ results' = Append(results,
                                  [user_id |-> users[u].id, total_points |-> 0,
                                   total_captain_points |-> 0,
                                   total_vice_captain_points |-> 0,
                                   total_auto_sub_points |-> 0])]_vars
    /\ [](\A k \in 1..Len(outcomes) : users[outcomes[k].user].picks # <<>>)
    /\ [](\A k \in 1..Len(results) :
             users[k].picks # <<>> =>
                 results[k].total_points =
                     SumSeq([j \in 1..Len(OutcomesOf(k)) |->
                                OutcomesOf(k)[j].gw.total_gw_points]))
    /\ [](\A a, b \in 1..Len(results) :
             users[a].picks = users[b].picks =>
                 [results[a] EXCEPT !.user_id = 0] = [results[b] EXCEPT !.user_id = 0])

\* the call returned three rows: a late joiner's row of zeros between the
\* equal, non-zero rows of two users with the same squad
C30_Witness ==
    /\ pc = "done" /\ error = "" /\ Len(results) = 3
    /\ users[2].picks = <<>>
    /\ results[2].total_points = 0 /\ results[2].total_auto_sub_points = 0
    /\ results[1].total_points > 0 /\ results[1].total_auto_sub_points > 0
    /\ results[3].total_points = results[1].total_points
    /\ Len(outcomes) = 4

====
